---- MODULE Spec2Model ----
(***************************************************************************)
(* HuiCardEditor (src/panels/lovelace/editor/card-editor/                  *)
(* hui-card-editor.ts): the card editor that keeps a card configuration    *)
(* and its YAML text in step and binds the GUI editor of the card's type.  *)
(*                                                                         *)
(* Every handler of the element is an operator from the element's fields   *)
(* (a record s) to the fields after the handler has run to its end or to   *)
(* its first await.  The async _updateConfigElement is cut at its two      *)
(* awaits: what runs before the first one is part of the caller's step,    *)
(* what runs after each await is a step of its own.                        *)
(***************************************************************************)
EXTENDS Naturals, Sequences, FiniteSets, TLC

VARIABLES _yaml, _config, _configElement, _configElType, _GUImode, _error,
          _warning, _loading, inflight

vars == <<_yaml, _config, _configElement, _configElType, _GUImode, _error,
          _warning, _loading, inflight>>

(* The most reconciliations suspended on an await at one time. *)
MaxInFlight == 2

undefined == "undefined"

----------------------------------------------------------------------------
(* Card configurations: objects with an optional type and optional content. *)

Keys == {"type", "content"}

(* Card types with a GUI editor, card types whose class has no             *)
(* getConfigElement, and a type no class is registered for.                *)
EditorTypes == {"a", "b"}
NoEditorTypes == {"n"}
UnknownTypes == {"u"}
Types == EditorTypes \cup NoEditorTypes \cup UnknownTypes

Contents == {"bad"}

FieldValues(k) == IF k = "type" THEN Types ELSE Contents

Configs ==
  UNION {{c \in [D -> Types \cup Contents] : \A k \in D : c[k] \in FieldValues(k)} :
         D \in SUBSET Keys}

(* The value of _config while no configuration is set. *)
NoConfig == [none |-> undefined]

(* Reading a property of an object: undefined when the object lacks it. *)
Get(c, k) == IF k \in DOMAIN c THEN c[k] ELSE undefined

deepEqual(a, b) ==
  /\ DOMAIN a = DOMAIN b
  /\ \A k \in DOMAIN a : a[k] = b[k]

----------------------------------------------------------------------------
(* YAML text: a sequence of lines.  A line is "key: value", the flow       *)
(* mapping "{}", or a line that is no YAML ("[").                          *)

Line(k, v) == [k |-> k, v |-> v]
FlowEmpty == Line("{}", "")
Bracket == Line("[", "")

MappingLines == {Line(k, v) : k \in {"type"}, v \in Types}
                  \cup {Line(k, v) : k \in {"content"}, v \in Contents}

LineKeys(text) == {text[i].k : i \in DOMAIN text}

(* safeDump writes the keys of the object, type before content. *)
KeyOrder == <<"type", "content">>

safeDump(c) ==
  IF DOMAIN c = {}
    THEN <<FlowEmpty>>
    ELSE LET present == SelectSeq(KeyOrder, LAMBDA k : k \in DOMAIN c)
         IN  [i \in 1..Len(present) |-> Line(present[i], c[present[i]])]

(* safeLoad throws on a line that is no mapping entry and on a key given twice. *)
SyntaxOk(text) ==
  \/ text = <<FlowEmpty>>
  \/ \A i \in DOMAIN text : text[i] \in MappingLines

DuplicateKey(text) ==
  \E i, j \in DOMAIN text : i # j /\ text[i].k = text[j].k

Parses(text) == SyntaxOk(text) /\ ~DuplicateKey(text)

ParseMessage(text) ==
  IF ~SyntaxOk(text) THEN "bad indentation of a mapping entry"
                     ELSE "duplicated mapping key"

safeLoad(text) ==
  IF text = <<>> THEN NoConfig
  ELSE IF text = <<FlowEmpty>> THEN <<>>
  ELSE [k \in LineKeys(text) |->
          text[CHOOSE i \in DOMAIN text : text[i].k = k].v]

Reverse(text) == [i \in DOMAIN text |-> text[Len(text) + 1 - i]]

(* The texts a user types: every dump, a dump with its lines in the other  *)
(* order, the empty text, and texts that do not parse.                     *)
BadTexts == {<<Line("type", "a"), Bracket>>,
             <<Line("type", "a"), Line("type", "b")>>}

Texts == {safeDump(c) : c \in Configs}
           \cup {Reverse(safeDump([type |-> "a", content |-> "bad"]))}
           \cup {<<>>}
           \cup BadTexts

----------------------------------------------------------------------------
(* The card registry and the GUI editors (create-card-element and the      *)
(* editors of the card types).                                             *)

(* The class registered for a card type, named by the type. *)
getCardElementClass(cardType) ==
  IF cardType \in EditorTypes \cup NoEditorTypes THEN cardType ELSE undefined

hasGetConfigElement(elClass) == elClass \in EditorTypes

NoElement == [cls |-> undefined, id |-> 0]

(* elClass.getConfigElement() creates an element: another one than the    *)
(* element mounted now.                                                    *)
getConfigElement(elClass, mounted) ==
  [cls |-> elClass, id |-> IF mounted.id = 1 THEN 2 ELSE 1]

(* Whether the editor's setConfig takes the configuration or throws. *)
Accepts(element, c) == c # NoConfig /\ Get(c, "content") # "bad"

----------------------------------------------------------------------------
(* Thrown errors: the message is prefix followed by rest, so that          *)
(* message.startsWith("WARNING:") is prefix = "WARNING:" and               *)
(* message.substr(8) is rest.                                              *)

Error(message) == [prefix |-> "", rest |-> message]
Warning(rest) == [prefix |-> "WARNING:", rest |-> rest]

NoEditorMessage(cardType) ==
  CASE cardType = "a" -> " No visual editor available for: a"
    [] cardType = "b" -> " No visual editor available for: b"
    [] cardType = "n" -> " No visual editor available for: n"
    [] cardType = "u" -> " No visual editor available for: u"

NoTypeMessage == "No card type defined"
NoElementMessage == " Cannot read property 'setConfig' of undefined"
RejectedMessage == " invalid configuration"

----------------------------------------------------------------------------
(* The handlers, on the record s of the element's fields.  Of the running  *)
(* handler, s.events are the events it has fired, s.runs counts its calls  *)
(* of _updateConfigElement and s.forwarded are its calls of the mounted    *)
(* editor's setConfig.                                                     *)

hasWarning(s) == s._warning # undefined
hasError(s) == s._error # undefined

(* An event goes out with its detail; the record of it also keeps the     *)
(* _error and _warning of the moment it was fired (at).                    *)
fireEvent(s, ev) ==
  [s EXCEPT !.events =
     Append(@, [name |-> ev.name, detail |-> ev.detail,
                at |-> [_error |-> s._error, _warning |-> s._warning]])]

GUImodeChangedUnlessError(s, guiMode) ==
  [name |-> "GUImode-changed",
   detail |-> [guiMode |-> guiMode, guiModeAvailable |-> ~hasError(s)]]

GUImodeChanged(s, guiMode) ==
  [name |-> "GUImode-changed",
   detail |-> [guiMode |-> guiMode,
               guiModeAvailable |-> ~(hasWarning(s) \/ hasError(s))]]

ConfigChanged(s) ==
  [name |-> "config-changed",
   detail |-> [config |-> s._config, error |-> s._error,
               guiModeAvailable |-> ~(hasWarning(s) \/ hasError(s))]]

(* set GUImode *)
GUImodeSet(s, guiMode) ==
  LET s1 == [s EXCEPT !._GUImode = guiMode]
  IN  fireEvent(s1, GUImodeChanged(s1, guiMode))

toggleModeUnlessError(s) ==
  IF hasError(s) THEN s ELSE GUImodeSet(s, ~s._GUImode)

toggleMode(s) == GUImodeSet(s, ~s._GUImode)

CatchKeepingMode(s, err) ==
  IF err.prefix = "WARNING:"
    THEN [s EXCEPT !._warning = err.rest, !._loading = FALSE]
    ELSE [s EXCEPT !._error = err.rest, !._loading = FALSE]

CatchKeepingLoading(s, err) ==
  LET s1 == IF err.prefix = "WARNING:"
              THEN [s EXCEPT !._warning = err.rest]
              ELSE [s EXCEPT !._error = err.rest]
  IN  GUImodeSet(s1, FALSE)

CatchAllAsError(s, err) ==
  [GUImodeSet([s EXCEPT !._error = err.rest], FALSE) EXCEPT !._loading = FALSE]

(* The catch and finally blocks of _updateConfigElement. *)
Catch(s, err) ==
  LET s1 == IF err.prefix = "WARNING:"
              THEN [s EXCEPT !._warning = err.rest]
              ELSE [s EXCEPT !._error = err.rest]
  IN  [GUImodeSet(s1, FALSE) EXCEPT !._loading = FALSE]

ForwardConfigRejectAsError(s) ==
  IF s._configElement = NoElement
    THEN Catch(s, Warning(NoElementMessage))
    ELSE LET s1 == [s EXCEPT !.forwarded =
                      Append(@, [element |-> s._configElement,
                                 config |-> s._config])]
         IN  IF Accepts(s._configElement, s._config)
               THEN [s1 EXCEPT !._loading = FALSE]
               ELSE Catch(s1, Error(RejectedMessage))

(* this._configElement.setConfig(this.value), to the end of the routine. *)
ForwardConfig(s) ==
  IF s._configElement = NoElement
    THEN Catch(s, Warning(NoElementMessage))
    ELSE LET s1 == [s EXCEPT !.forwarded =
                      Append(@, [element |-> s._configElement,
                                 config |-> s._config])]
         IN  IF Accepts(s._configElement, s._config)
               THEN [s1 EXCEPT !._loading = FALSE]
               ELSE Catch(s1, Warning(RejectedMessage))

Remove(seq, i) == [j \in 1..(Len(seq) - 1) |-> IF j < i THEN seq[j] ELSE seq[j + 1]]

_updateConfigElementKeepingWarning(s) ==
  LET s0 == [s EXCEPT !.runs = @ + 1]
  IN  IF s0._config = NoConfig THEN s0
      ELSE LET cardType == Get(s0._config, "type")
               s1 == [s0 EXCEPT !._error = undefined]
           IN  IF s1._configElType # cardType
                 THEN IF cardType = undefined
                        THEN Catch(s1, Error(NoTypeMessage))
                        ELSE [s1 EXCEPT !.inflight =
                                Append(@, [cardType |-> cardType,
                                           pc |-> "getCardElementClass"])]
                 ELSE ForwardConfig(s1)

(* _updateConfigElement up to its first await, or to its end. *)
_updateConfigElement(s) ==
  LET s0 == [s EXCEPT !.runs = @ + 1]
  IN  IF s0._config = NoConfig THEN s0
      ELSE LET cardType == Get(s0._config, "type")
               s1 == [s0 EXCEPT !._error = undefined, !._warning = undefined]
           IN  IF s1._configElType # cardType
                 THEN IF cardType = undefined
                        THEN Catch(s1, Error(NoTypeMessage))
                        ELSE [s1 EXCEPT !.inflight =
                                Append(@, [cardType |-> cardType,
                                           pc |-> "getCardElementClass"])]
                 ELSE ForwardConfig(s1)

(* _updateConfigElement from where getCardElementClass has resolved. *)
afterGetCardElementClass(s, i) ==
  LET cardType == s.inflight[i].cardType
      elClass == getCardElementClass(cardType)
      s1 == [s EXCEPT !._loading = TRUE]
  IN  IF elClass # undefined /\ hasGetConfigElement(elClass)
        THEN [s1 EXCEPT !.inflight[i].pc = "getConfigElement"]
        ELSE Catch([s1 EXCEPT !.inflight = Remove(@, i)],
                   Warning(NoEditorMessage(cardType)))

afterGetConfigElementUntagged(s, i) ==
  LET cardType == s.inflight[i].cardType
      configElement == getConfigElement(getCardElementClass(cardType),
                                        s._configElement)
  IN  ForwardConfig([s EXCEPT !._configElement = configElement,
                              !.inflight = Remove(@, i)])

(* _updateConfigElement from where getConfigElement has resolved. *)
afterGetConfigElement(s, i) ==
  LET cardType == s.inflight[i].cardType
      configElement == getConfigElement(getCardElementClass(cardType),
                                        s._configElement)
  IN  ForwardConfig([s EXCEPT !._configElement = configElement,
                              !._configElType = cardType,
                              !.inflight = Remove(@, i)])

_setConfig(s) ==
  LET s1 == IF s._error = undefined
              THEN [_updateConfigElement(s) EXCEPT !._error = undefined]
              ELSE s
  IN  fireEvent(s1, ConfigChanged(s1))

(* get yaml *)
yamlGet(s) == s._yaml

yamlSetDiscarding(s, text) ==
  LET s1 == [s EXCEPT !._yaml = text]
  IN  IF Parses(yamlGet(s1))
        THEN _setConfig([s1 EXCEPT !._config = safeLoad(yamlGet(s1)),
                                   !._error = undefined])
        ELSE _setConfig([s1 EXCEPT !._config = NoConfig,
                                   !._error = ParseMessage(yamlGet(s1))])

(* set yaml *)
yamlSet(s, text) ==
  LET s1 == [s EXCEPT !._yaml = text]
  IN  IF Parses(yamlGet(s1))
        THEN _setConfig([s1 EXCEPT !._config = safeLoad(yamlGet(s1)),
                                   !._error = undefined])
        ELSE _setConfig([s1 EXCEPT !._error = ParseMessage(yamlGet(s1))])

valueSetKeepingText(s, c) ==
  IF s._config # NoConfig /\ deepEqual(c, s._config)
    THEN s
    ELSE _setConfig([s EXCEPT !._config = c, !._error = undefined])

valueSetUnguarded(s, c) ==
  _setConfig([s EXCEPT !._config = c, !._yaml = safeDump(c),
                       !._error = undefined])

(* set value *)
valueSet(s, c) ==
  IF s._config # NoConfig /\ deepEqual(c, s._config)
    THEN s
    ELSE _setConfig([s EXCEPT !._config = c, !._yaml = safeDump(c),
                              !._error = undefined])

_handleUIConfigChanged(s, c) == valueSet(s, c)

_handleYAMLChanged(s, newYaml) ==
  IF newYaml # yamlGet(s) THEN yamlSet(s, newYaml) ELSE s

----------------------------------------------------------------------------
(* The element as a state machine.  A step runs one handler on the fields  *)
(* of the element and stores the fields it leaves; the events the handler  *)
(* fired (s.events) go to the host and its calls of the editor's setConfig *)
(* (s.forwarded) to the editor.                                            *)

Fields ==
  [_yaml |-> _yaml, _config |-> _config, _configElement |-> _configElement,
   _configElType |-> _configElType, _GUImode |-> _GUImode, _error |-> _error,
   _warning |-> _warning, _loading |-> _loading, inflight |-> inflight,
   events |-> <<>>, runs |-> 0, forwarded |-> <<>>]

Commit(s) ==
  /\ Len(s.inflight) <= MaxInFlight
  /\ _yaml' = s._yaml
  /\ _config' = s._config
  /\ _configElement' = s._configElement
  /\ _configElType' = s._configElType
  /\ _GUImode' = s._GUImode
  /\ _error' = s._error
  /\ _warning' = s._warning
  /\ _loading' = s._loading
  /\ inflight' = s.inflight

Init ==
  /\ _yaml = <<>>
  /\ _config = NoConfig
  /\ _configElement = NoElement
  /\ _configElType = undefined
  /\ _GUImode = TRUE
  /\ _error = undefined
  /\ _warning = undefined
  /\ _loading = FALSE
  /\ inflight = <<>>

(* The host sets the text. *)
SetText(text) ==
  /\ text \in Texts
  /\ Commit(yamlSet(Fields, text))

(* The host sets the configuration. *)
SetConfig(c) ==
  /\ c \in Configs
  /\ Commit(valueSet(Fields, c))

(* The user flips between the GUI editor and the code editor. *)
ToggleMode ==
  /\ Commit(toggleMode(Fields))

(* The host assigns the mode. *)
SetGUImode(guiMode) ==
  /\ guiMode \in BOOLEAN
  /\ Commit(GUImodeSet(Fields, guiMode))

(* The mounted GUI editor reports a configuration. *)
UIConfigChanged(c) ==
  /\ _configElement # NoElement
  /\ Commit(_handleUIConfigChanged(Fields, c))

(* The code editor, rendered in YAML mode, reports its text. *)
YAMLChanged(text) ==
  /\ ~_GUImode
  /\ Commit(_handleYAMLChanged(Fields, text))

(* The registry's promise for the suspended reconciliation i resolves. *)
LookupResolved(i) ==
  /\ inflight[i].pc = "getCardElementClass"
  /\ Commit(afterGetCardElementClass(Fields, i))

(* The promise of getConfigElement for the suspended reconciliation i      *)
(* resolves.                                                               *)
ElementCreated(i) ==
  /\ inflight[i].pc = "getConfigElement"
  /\ Commit(afterGetConfigElement(Fields, i))

Next ==
  \/ \E text \in Texts : SetText(text)
  \/ \E c \in Configs : SetConfig(c)
  \/ ToggleMode
  \/ \E guiMode \in BOOLEAN : SetGUImode(guiMode)
  \/ \E c \in Configs : UIConfigChanged(c)
  \/ \E text \in Texts : YAMLChanged(text)
  \/ \E i \in DOMAIN inflight : LookupResolved(i)
  \/ \E i \in DOMAIN inflight : ElementCreated(i)

Spec == Init /\ [][Next]_vars

----------------------------------------------------------------------------
(* What the handlers do from the current state.  A step of the element is  *)
(* Commit(h(Fields, input)) for a handler h, so a property of every call   *)
(* of h is stated on h(Fields, input) in every reachable state.            *)

Last(seq) == seq[Len(seq)]

EventsNamed(s, name) == SelectSeq(s.events, LAMBDA ev : ev.name = name)

(* The fields that are state of the element, without a handler's outputs. *)
StateOf(s) == [s EXCEPT !.events = <<>>, !.runs = 0, !.forwarded = <<>>]

(* The reconciliations suspended on the registry lookup / on the creation  *)
(* of the editor.                                                          *)
AwaitingClass == {i \in DOMAIN inflight : inflight[i].pc = "getCardElementClass"}
AwaitingElement == {i \in DOMAIN inflight : inflight[i].pc = "getConfigElement"}

HasEditor(cardType) ==
  /\ getCardElementClass(cardType) # undefined
  /\ hasGetConfigElement(getCardElementClass(cardType))

(* The results of resuming the suspended reconciliation i. *)
Resumed(i) ==
  IF i \in AwaitingClass THEN afterGetCardElementClass(Fields, i)
                         ELSE afterGetConfigElement(Fields, i)

(* P of the result of every handler call possible now. *)
EveryOutcome(P(_)) ==
  /\ \A text \in Texts : P(yamlSet(Fields, text))
  /\ \A c \in Configs : P(valueSet(Fields, c))
  /\ \A c \in Configs : P(_handleUIConfigChanged(Fields, c))
  /\ \A text \in Texts : P(_handleYAMLChanged(Fields, text))
  /\ P(toggleMode(Fields))
  /\ \A guiMode \in BOOLEAN : P(GUImodeSet(Fields, guiMode))
  /\ \A i \in DOMAIN inflight : P(Resumed(i))

----------------------------------------------------------------------------
(* C1: stale-bind protection.  Once no reconciliation is in flight, the    *)
(* mounted editor is tagged with the type of the current configuration     *)
(* (a type that has an editor), whatever the order in which overlapping    *)
(* lookups resolved.                                                       *)
C1_MountedTagIsCurrentType ==
  (/\ inflight = <<>>
   /\ _config # NoConfig
   /\ HasEditor(Get(_config, "type"))
   /\ _configElement # NoElement)
    => _configElType = Get(_config, "type")

(* C2: a setText whose text does not parse stores the text as given, sets  *)
(* the error to the parser's message and keeps the configuration of before *)
(* the call.                                                               *)
C2_FailedSetTextKeepsConfig ==
  \A text \in Texts :
    ~Parses(text) =>
      LET r == yamlSet(Fields, text)
      IN  /\ r._yaml = text
          /\ r._error = ParseMessage(text)
          /\ r._config = _config

C2_Witness ==
  /\ ~Parses(_yaml)
  /\ _error = ParseMessage(_yaml)
  /\ _config # NoConfig
  /\ _configElement # NoElement

(* C3: fatal precedence.  After a setText whose text does not parse the    *)
(* display mode is RAW and the notification says guiModeAvailable = false, *)
(* whatever the mode was before.                                           *)
C3_FailedSetTextForcesRaw ==
  \A text \in Texts :
    ~Parses(text) =>
      LET r == yamlSet(Fields, text)
      IN  /\ ~r._GUImode
          /\ r.events # <<>>
          /\ ~Last(r.events).detail.guiModeAvailable

(* guiModeAvailable of every event that r fired against the _error, and   *)
(* against the _error and _warning, of the moment it was fired.            *)
AvailableIffNoError(r) ==
  \A k \in DOMAIN r.events :
    r.events[k].detail.guiModeAvailable <=> (r.events[k].at._error = undefined)

AvailableIffNoErrorNoWarning(r) ==
  \A k \in DOMAIN r.events :
    r.events[k].detail.guiModeAvailable
      <=> (/\ r.events[k].at._error = undefined
           /\ r.events[k].at._warning = undefined)

(* C4 as claimed: every notification carries guiModeAvailable = true       *)
(* exactly when no error is set as it is fired (a warning does not count). *)
C4_AvailableIffNoError == EveryOutcome(AvailableIffNoError)

(* C4 amended: every notification carries guiModeAvailable = true exactly  *)
(* when neither an error nor a warning is set as it is fired; one fired    *)
(* while a warning is set carries guiModeAvailable = false.                *)
C4_AvailableIffNoErrorNoWarning == EveryOutcome(AvailableIffNoErrorNoWarning)

(* A warning is set and toggling the mode reports guiModeAvailable = false. *)
C4_Witness ==
  /\ _warning # undefined
  /\ _error = undefined
  /\ Last(toggleMode(Fields).events).at._warning # undefined
  /\ ~Last(toggleMode(Fields).events).detail.guiModeAvailable

(* The reconciliation i, suspended on the lookup of a type that has no     *)
(* class or whose class has no editor.                                     *)
NoEditorFound(i) == i \in AwaitingClass /\ ~HasEditor(inflight[i].cardType)

(* C5 as claimed: warning fallback.  When the lookup finds no editor, the  *)
(* reconciliation ends with the warning for its type, RAW mode, no error,  *)
(* and guiModeAvailable reported true.                                     *)
C5_WarningFallbackAvailable ==
  \A i \in DOMAIN inflight :
    NoEditorFound(i) =>
      LET r == afterGetCardElementClass(Fields, i)
      IN  /\ r._warning = NoEditorMessage(inflight[i].cardType)
          /\ ~r._GUImode
          /\ r._error = undefined
          /\ r.events # <<>>
          /\ Last(r.events).detail.guiModeAvailable

(* C5 amended: when the lookup finds no editor, the reconciliation ends    *)
(* there with the warning " No visual editor available for: <type>" and    *)
(* RAW mode, it leaves the error as it was, and the one notification it    *)
(* fires is a mode notification with guiMode = false and                   *)
(* guiModeAvailable = false.                                               *)
C5_WarningFallback ==
  \A i \in DOMAIN inflight :
    NoEditorFound(i) =>
      LET r == afterGetCardElementClass(Fields, i)
      IN  /\ r._warning = NoEditorMessage(inflight[i].cardType)
          /\ ~r._GUImode
          /\ r._error = _error
          /\ r.inflight = Remove(inflight, i)
          /\ Len(r.events) = 1
          /\ r.events[1].name = "GUImode-changed"
          /\ r.events[1].detail = [guiMode |-> FALSE, guiModeAvailable |-> FALSE]

C5_Witness ==
  /\ _config # NoConfig
  /\ Get(_config, "type") = "u"
  /\ _warning = NoEditorMessage("u")
  /\ ~_GUImode
  /\ _error = undefined
  /\ inflight = <<>>

(* C6: a reconciliation of a configuration without a type ends with the    *)
(* error "No card type defined" and RAW mode and starts no lookup, and the *)
(* change notification of that edit carries the error and                  *)
(* guiModeAvailable = false.                                               *)
C6_MissingTypeIsFatal ==
  \A c \in Configs :
    (Get(c, "type") = undefined /\ ~deepEqual(c, _config)) =>
      LET r == valueSet(Fields, c)
          changed == EventsNamed(r, "config-changed")
      IN  /\ r._error = NoTypeMessage
          /\ ~r._GUImode
          /\ r.inflight = inflight
          /\ Len(changed) = 1
          /\ changed[1].detail.error = NoTypeMessage
          /\ ~changed[1].detail.guiModeAvailable

(* C7: when the lookup finds no editor while an editor of another type is  *)
(* mounted, that editor is destroyed: afterwards none is mounted and no    *)
(* tag is remembered.                                                      *)
C7_NoEditorUnmounts ==
  \A i \in DOMAIN inflight :
    (NoEditorFound(i) /\ _configElement # NoElement) =>
      LET r == afterGetCardElementClass(Fields, i)
      IN  /\ r._configElement = NoElement
          /\ r._configElType = undefined

(* C8: no-op idempotence.  setConfig(c) with c deeply equal to the current *)
(* configuration, from the host or echoed by the editor, changes no field, *)
(* runs no reconciliation and fires no event; so of two setConfig(c) in a  *)
(* row the first runs one reconciliation and fires one change notification *)
(* and the second does nothing.                                            *)
C8_EqualConfigIsNoOp ==
  \A c \in Configs :
    /\ (_config # NoConfig /\ deepEqual(c, _config)) =>
         /\ valueSet(Fields, c) = Fields
         /\ _handleUIConfigChanged(Fields, c) = Fields
    /\ ~deepEqual(c, _config) =>
         LET first == valueSet(Fields, c)
             second == valueSet(StateOf(first), c)
         IN  /\ first.runs = 1
             /\ Len(EventsNamed(first, "config-changed")) = 1
             /\ second = StateOf(first)

C8_Witness ==
  /\ _config # NoConfig
  /\ _yaml = safeDump(_config)
  /\ _error = undefined
  /\ _configElement # NoElement
  /\ valueSet(Fields, _config) = Fields

(* C9: rebind on type change.  With an editor mounted, setting a           *)
(* configuration of another type that has an editor starts a lookup for    *)
(* that type and leaves the mounted editor in place; when the lookup and   *)
(* the creation have completed, the mounted editor is a new instance of    *)
(* that type's class, tagged with the type, and is given the current       *)
(* configuration.  Setting a configuration of the mounted editor's type    *)
(* starts no lookup: the same instance stays mounted and is given the      *)
(* configuration.                                                          *)
C9_RebindOnTypeChange ==
  /\ \A c \in Configs :
       (_configElement # NoElement /\ ~deepEqual(c, _config)) =>
         LET r == valueSet(Fields, c)
             cardType == Get(c, "type")
         IN  /\ (HasEditor(cardType) /\ cardType # _configElType) =>
                  /\ r.inflight =
                       Append(inflight, [cardType |-> cardType,
                                         pc |-> "getCardElementClass"])
                  /\ r._configElement = _configElement
                  /\ r._configElType = _configElType
                  /\ r.forwarded = <<>>
             /\ cardType = _configElType =>
                  /\ r.inflight = inflight
                  /\ r._configElement = _configElement
                  /\ r._configElType = _configElType
                  /\ r.forwarded = <<[element |-> _configElement, config |-> c]>>
  /\ \A i \in AwaitingClass :
       HasEditor(inflight[i].cardType) =>
         afterGetCardElementClass(Fields, i).inflight =
           [inflight EXCEPT ![i].pc = "getConfigElement"]
  /\ \A i \in AwaitingElement :
       LET r == afterGetConfigElement(Fields, i)
       IN  /\ r._configElement.cls = getCardElementClass(inflight[i].cardType)
           /\ r._configElement # _configElement
           /\ r._configElType = inflight[i].cardType
           /\ r.inflight = Remove(inflight, i)
           /\ r.forwarded = <<[element |-> r._configElement, config |-> _config]>>

C9_Witness ==
  /\ _configElType = "b"
  /\ _configElement.cls = "b"
  /\ _configElement.id = 2
  /\ _config # NoConfig
  /\ Get(_config, "type") = "b"
  /\ inflight = <<>>

(* C10: a reconciliation that was suspended on the registry is followed,   *)
(* when it completes, by a change notification that carries the error it   *)
(* ended with and, if that is an error, guiModeAvailable = false.          *)
C10_CompletionNotifiesChange ==
  \A i \in DOMAIN inflight :
    LET r == Resumed(i)
    IN  Len(r.inflight) < Len(inflight) =>
          \E k \in DOMAIN r.events :
            /\ r.events[k].name = "config-changed"
            /\ r.events[k].detail.error = r._error
            /\ (r._error # undefined => ~r.events[k].detail.guiModeAvailable)

(* C11: ordering.  While a reconciliation is suspended, no notification   *)
(* of a later reconciliation is observed: an edit that starts another      *)
(* reconciliation fires nothing, and a reconciliation that was started     *)
(* after a still suspended one fires nothing when it is resumed.           *)
C11_EarlierCompletesBeforeLaterNotifies ==
  inflight # <<>> =>
    /\ \A c \in Configs :
         LET r == valueSet(Fields, c) IN r.runs > 0 => r.events = <<>>
    /\ \A text \in Texts :
         LET r == yamlSet(Fields, text) IN r.runs > 0 => r.events = <<>>
    /\ \A i \in DOMAIN inflight : i > 1 => Resumed(i).events = <<>>

(* C12: the mode goes from RAW to GUI only by toggleMode or the mode       *)
(* setter: no text or configuration set, no change reported by an editor   *)
(* and no resumed reconciliation leaves GUI where RAW was; and a handler   *)
(* in which a reconciliation sets a warning or an error leaves RAW.        *)
NeverToGui(r) == ~_GUImode => ~r._GUImode

ClassifiedImpliesRaw(r) ==
  /\ (r._warning # undefined /\ r._warning # _warning) => ~r._GUImode
  /\ (r.runs > 0 /\ r._config # NoConfig /\ Get(r._config, "type") = undefined)
       => ~r._GUImode
  /\ (r.runs > 0 /\ r._config # NoConfig /\ r._warning # undefined)
       => ~r._GUImode
  /\ \A k \in DOMAIN r.events :
       (r.events[k].name = "GUImode-changed" => ~r.events[k].detail.guiMode)

C12_GuiOnlyByToggle ==
  /\ \A text \in Texts :
       LET r == yamlSet(Fields, text)
       IN  NeverToGui(r) /\ ClassifiedImpliesRaw(r)
  /\ \A c \in Configs :
       LET r == valueSet(Fields, c)
       IN  NeverToGui(r) /\ ClassifiedImpliesRaw(r)
  /\ \A i \in DOMAIN inflight :
       LET r == Resumed(i)
       IN  /\ NeverToGui(r)
           /\ ClassifiedImpliesRaw(r)
           /\ (Len(r.inflight) < Len(inflight) /\ ~HasEditor(inflight[i].cardType))
                => (r._warning # undefined /\ ~r._GUImode)
           /\ (r.forwarded # <<>> /\ ~Accepts(r._configElement, r._config))
                => (r._warning # undefined /\ ~r._GUImode)

(* A reconciliation has ended in a warning and forced RAW, the user has    *)
(* toggled back to GUI, and a reconciliation is suspended.                 *)
C12_Witness ==
  /\ _warning # undefined
  /\ _GUImode
  /\ inflight # <<>>

(* C13: when the mounted editor rejects the configuration forwarded to    *)
(* it, the reconciliation ends with the warning that carries the editor's  *)
(* message and with no error of its own, in RAW mode, and with the         *)
(* configuration and the text it started with (the ones just set, when it  *)
(* runs inside a set; the stored ones, when it is resumed).                *)
Rejected(r) ==
  /\ r.forwarded # <<>>
  /\ ~Accepts(Last(r.forwarded).element, Last(r.forwarded).config)

EndsInEditorWarning(r) ==
  /\ r._warning = RejectedMessage
  /\ ~r._GUImode
  /\ ~r._loading
  /\ Last(r.forwarded).config = r._config

C14_TextConfigConsistent ==
  /\ _error = undefined =>
       (Parses(yamlGet(Fields)) /\ deepEqual(safeLoad(yamlGet(Fields)), _config))
  /\ _error # undefined =>
       (~Parses(yamlGet(Fields)) /\ _error = ParseMessage(yamlGet(Fields)))
  /\ \A c \in Configs :
       LET r == valueSet(Fields, c)
       IN  ~(_config # NoConfig /\ deepEqual(c, _config)) =>
             /\ r._config = c
             /\ r._yaml = safeDump(c)
             /\ deepEqual(safeLoad(r._yaml), c)
             /\ r._error = undefined

(* A text that is not the dump of the configuration (its keys are in       *)
(* another order) is stored with the configuration it parses to.           *)
C14_Witness ==
  /\ _error = undefined
  /\ _config # NoConfig
  /\ _yaml # safeDump(_config)
  /\ safeLoad(_yaml) = _config

(* C15: happy path.  In GUI mode with nothing mounted and nothing         *)
(* suspended, a value set with a configuration whose type has an editor    *)
(* that accepts it notifies the change with that configuration, no error   *)
(* and the GUI available, clears a warning left by an earlier              *)
(* reconciliation, and, once its lookup and the creation of the editor     *)
(* have resolved with no edit in between, ends with an editor of that type *)
(* mounted and tagged with it, given that configuration, with no error, no *)
(* warning, in GUI mode and not loading.                                   *)
HappyPath(c) ==
  LET cardType == Get(c, "type")
      r1 == valueSet(Fields, c)
      r2 == afterGetCardElementClass(StateOf(r1), 1)
      r3 == afterGetConfigElement(StateOf(r2), 1)
  IN  /\ r1.runs = 1
      /\ Len(r1.events) = 1
      /\ r1.events[1].name = "config-changed"
      /\ r1.events[1].detail =
           [config |-> c, error |-> undefined, guiModeAvailable |-> TRUE]
      /\ r1._warning = undefined
      /\ r1.inflight = <<[cardType |-> cardType, pc |-> "getCardElementClass"]>>
      /\ r2._loading
      /\ r2.inflight = <<[cardType |-> cardType, pc |-> "getConfigElement"]>>
      /\ r2.events = <<>>
      /\ r3.inflight = <<>>
      /\ r3._configElement # NoElement
      /\ r3._configElement.cls = getCardElementClass(cardType)
      /\ r3._configElType = cardType
      /\ r3.forwarded = <<[element |-> r3._configElement, config |-> c]>>
      /\ r3._error = undefined
      /\ r3._warning = undefined
      /\ r3._GUImode
      /\ ~r3._loading
      /\ r3._config = c
      /\ r3.events = <<>>

C15_HappyPath ==
  (_GUImode /\ _configElement = NoElement /\ inflight = <<>>) =>
    \A c \in Configs :
      ( /\ ~(_config # NoConfig /\ deepEqual(c, _config))
        /\ HasEditor(Get(c, "type"))
        /\ Get(c, "content") # "bad" ) => HappyPath(c)

(* The happy path has been walked to its end in GUI mode. *)
C15_Witness ==
  /\ _GUImode
  /\ _configElement # NoElement
  /\ _configElement.id = 1
  /\ _configElType = "a"
  /\ _config # NoConfig
  /\ Get(_config, "type") = "a"
  /\ Get(_config, "content") # "bad"
  /\ _error = undefined
  /\ _warning = undefined
  /\ ~_loading
  /\ inflight = <<>>

(* C16: every text set, whether its text parses or not, runs the          *)
(* reconciliation routine once.                                            *)
C16_SetTextAlwaysReconciles ==
  \A text \in Texts : yamlSet(Fields, text).runs = 1

(* C17: toggleMode flips the mode from every reachable state, whatever    *)
(* the error and the warning, fires exactly one GUImode-changed that       *)
(* carries the new mode, and changes no other field (configuration, text,  *)
(* error, warning, mounted editor and its tag, loading, suspended          *)
(* reconciliations); a second toggleMode restores the state.               *)
C17_ToggleFlips ==
  LET r == toggleMode(Fields)
      r2 == toggleMode(StateOf(r))
  IN  /\ r._GUImode = ~_GUImode
      /\ Len(r.events) = 1
      /\ r.events[1].name = "GUImode-changed"
      /\ r.events[1].detail.guiMode = ~_GUImode
      /\ r.runs = 0
      /\ r.forwarded = <<>>
      /\ StateOf(r) = [Fields EXCEPT !._GUImode = ~_GUImode]
      /\ r2._GUImode = _GUImode
      /\ Len(r2.events) = 1
      /\ StateOf(r2) = Fields

(* GUI mode has been entered again by a toggle although an error and a     *)
(* warning are set.                                                        *)
C17_Witness ==
  /\ _GUImode
  /\ _error # undefined
  /\ _warning # undefined

(* C18: the error state is single-valued: in every reachable state at     *)
(* most one of the error and the warning is set.                           *)
C18_ErrorStateSingleValued ==
  ~(_error # undefined /\ _warning # undefined)

(* C19: the loading flag is cleared on every exit of a reconciliation:    *)
(* in every reachable state with no reconciliation suspended the flag is   *)
(* false, and every handler call that ends a reconciliation (in success,   *)
(* in a warning or in an error) leaves it false.                           *)
C19_LoadingCleared ==
  /\ inflight = <<>> => ~_loading
  /\ \A i \in DOMAIN inflight :
       LET r == Resumed(i)
       IN  Len(r.inflight) < Len(inflight) => ~r._loading
  /\ \A c \in Configs :
       LET r == valueSet(Fields, c)
       IN  (r.runs > 0 /\ r.inflight = inflight /\ r._config # NoConfig)
             => ~r._loading
  /\ \A text \in Texts :
       LET r == yamlSet(Fields, text)
       IN  (r.runs > 0 /\ r.inflight = inflight /\ r._config # NoConfig)
             => ~r._loading

(* A reconciliation has set the flag after its lookup and has ended in the *)
(* warning of a card without editor; nothing is suspended.                 *)
C19_Witness ==
  /\ inflight = <<>>
  /\ ~_loading
  /\ _warning \in {NoEditorMessage(cardType) : cardType \in NoEditorTypes \cup UnknownTypes}

(* C20: while a reconciliation is suspended on its registry lookup the    *)
(* loading flag is true.                                                   *)
C20_LoadingWhileLookupPending ==
  AwaitingClass # {} => _loading

====
